---------------------------- MODULE Spec2Model ----------------------------
(***************************************************************************)
(* A model of dmarc_report_parser.py: the DMARC aggregate report parser    *)
(* (parse_dmarc_xml: field lookup, classification of the records into      *)
(* success / warning / failure, the digest and the all-clear rendering)    *)
(* and the batch driver (main) with the two archive extractors.            *)
(*                                                                         *)
(* Representation.                                                         *)
(*  - An XML payload is a record: wellformed says whether ET.fromstring    *)
(*    accepts it; org_name and domain are the metadata elements; records   *)
(*    are the <record> elements in document order.                         *)
(*  - An optional element is a sequence of length 0 (the element is        *)
(*    absent) or 1 (its text); findtext returns the text or the default.   *)
(*  - The text of <count> is a sequence of one-character strings, so that  *)
(*    int() is modelled by what it does on the characters. All other       *)
(*    texts are strings that the code only compares or copies.             *)
(*  - A rendered summary is [view, lines]: lines are records whose kind    *)
(*    names the f-string that produced them and whose other fields are     *)
(*    the values interpolated into it.                                     *)
(* Not modelled: the namespace prefix, the date range and the policy       *)
(* line's p/sp/pct, and the auth_results detail lines; none of them takes  *)
(* part in the classification, the totals or the control flow.  Archives   *)
(* are well-formed containers (zipfile and gzip are library code).         *)
(***************************************************************************)
EXTENDS Integers, Sequences, FiniteSets, TLC

VARIABLES
    xml_content,    \* parse harness: the payload handed to parse_dmarc_xml
    frame,          \* parse harness: outcome and locals of the call
    ppc,            \* parse harness: "input" | "call" | "returned"
    reports,        \* main: os.listdir("reports"), the file names
    idx,            \* main: position of the outer loop in reports (1-based)
    xmls,           \* main: payloads extracted from the current file
    j,              \* main: position of the inner loop in xmls (1-based)
    stdout,         \* main: everything printed so far, one entry per print
    pc,             \* main: "start" | "for_report" | "for_xml" | "done" | "raised"
    exc,            \* main: the exception that ended the run, or "none"
    log             \* history: per visited file, payloads extracted and summaries printed

vars == <<xml_content, frame, ppc, reports, idx, xmls, j, stdout, pc, exc, log>>

parseVars == <<xml_content, frame, ppc>>
mainVars == <<reports, idx, xmls, j, stdout, pc, exc, log>>

---------------------------------------------------------------------------
(* Bounds of the model *)

MaxRecords == 2
MaxCountLen == 2
MaxFiles == 3
MaxEntries == 2

---------------------------------------------------------------------------
(* Text helpers *)

Digits == {"0", "1", "2"}
CountChars == Digits \cup {"-", "x"}

DigitValue(c) == CASE c = "0" -> 0 [] c = "1" -> 1 [] c = "2" -> 2

AllDigits(t) == \A k \in 1..Len(t) : t[k] \in Digits

RECURSIVE DecimalValue(_)
DecimalValue(t) ==
    IF t = <<>> THEN 0
    ELSE 10 * DecimalValue(SubSeq(t, 1, Len(t) - 1)) + DigitValue(t[Len(t)])

\* int(s) of Python on a text over CountChars: an optional sign followed by
\* at least one digit; anything else raises ValueError.
IntParses(t) ==
    /\ t # <<>>
    /\ IF t[1] = "-" THEN Len(t) > 1 /\ AllDigits(Tail(t)) ELSE AllDigits(t)

IntValue(t) == IF t[1] = "-" THEN 0 - DecimalValue(Tail(t)) ELSE DecimalValue(t)

\* str.upper() on the texts of the model
Upper(s) ==
    CASE s = "pass" -> "PASS"
      [] s = "fail" -> "FAIL"
      [] s = "none" -> "NONE"
      [] s = "quarantine" -> "QUARANTINE"
      [] s = "reject" -> "REJECT"
      [] OTHER -> s

\* Element.findtext(path, default): the text of the element, or the default
findtext(elem, default) == IF elem = <<>> THEN default ELSE elem[1]

---------------------------------------------------------------------------
(* parse_dmarc_xml *)

\* lines 56-104: one entry per <record> element, in document order
RECURSIVE BuildRecords(_)
BuildRecords(elems) ==
    IF elems = <<>> THEN <<>>
    ELSE Append(BuildRecords(SubSeq(elems, 1, Len(elems) - 1)),
                [source_ip |-> findtext(elems[Len(elems)].source_ip, ""),
                 count |-> findtext(elems[Len(elems)].count, <<>>),
                 disposition |-> findtext(elems[Len(elems)].disposition, ""),
                 dkim |-> findtext(elems[Len(elems)].dkim, ""),
                 spf |-> findtext(elems[Len(elems)].spf, "")])

\* sum(int(rec["count"]) for rec in recs), lines 107, 201, 202
RECURSIVE SumCounts(_)
SumCounts(recs) ==
    IF recs = <<>> THEN 0
    ELSE SumCounts(SubSeq(recs, 1, Len(recs) - 1)) + IntValue(recs[Len(recs)].count)

\* a mutant of Branch: the warning rule no longer accepts "quarantine"
BranchNoQuarantine(rec) ==
    LET passed_spf == rec.spf = "pass"
        passed_dkim == rec.dkim = "pass"
    IN  IF passed_spf /\ passed_dkim /\ rec.disposition \in {"none", "pass"}
        THEN "if"
        ELSE IF (passed_spf \/ passed_dkim) /\ rec.disposition \in {"none", "pass"}
        THEN "elif"
        ELSE "else"

\* lines 113-125: the branch of the if / elif / else the record takes
Branch(rec) ==
    LET passed_spf == rec.spf = "pass"
        passed_dkim == rec.dkim = "pass"
    IN  IF passed_spf /\ passed_dkim /\ rec.disposition \in {"none", "pass"}
        THEN "if"
        ELSE IF (passed_spf \/ passed_dkim)
                /\ rec.disposition \in {"none", "pass", "quarantine"}
        THEN "elif"
        ELSE "else"

\* a mutant of LoopBody: the elif became an if, so a record of the first
\* branch also runs through the second if / else
LoopBodyIfNotElif(acc, rec) ==
    LET a1 == IF Branch(rec) = "if"
              THEN [acc EXCEPT !.success_count = @ + IntValue(rec.count)]
              ELSE acc
    IN  IF (rec.spf = "pass" \/ rec.dkim = "pass")
           /\ rec.disposition \in {"none", "pass", "quarantine"}
        THEN [a1 EXCEPT !.warning_records = Append(@, rec)]
        ELSE [a1 EXCEPT !.failed_records = Append(@, rec)]

\* a mutant of LoopBody: failures are inserted at the front of the list
LoopBodyPrepend(acc, rec) ==
    CASE Branch(rec) = "if" ->
            [acc EXCEPT !.success_count = @ + IntValue(rec.count)]
      [] Branch(rec) = "elif" ->
            [acc EXCEPT !.warning_records = Append(@, rec)]
      [] OTHER ->
            [acc EXCEPT !.failed_records = <<rec>> \o @]

\* lines 112-125: one iteration of the classification loop
LoopBody(acc, rec) ==
    CASE Branch(rec) = "if" ->
            [acc EXCEPT !.success_count = @ + IntValue(rec.count)]
      [] Branch(rec) = "elif" ->
            [acc EXCEPT !.warning_records = Append(@, rec)]
      [] OTHER ->
            [acc EXCEPT !.failed_records = Append(@, rec)]

\* lines 108-125: the classification loop over records
RECURSIVE ClassifyLoop(_)
ClassifyLoop(recs) ==
    IF recs = <<>>
    THEN [success_count |-> 0, warning_records |-> <<>>, failed_records |-> <<>>]
    ELSE LoopBody(ClassifyLoop(SubSeq(recs, 1, Len(recs) - 1)), recs[Len(recs)])

\* lines 143, 180
count_str(rec) ==
    IF rec.count = <<"1">> THEN [count |-> <<"1">>, unit |-> "email"]
    ELSE [count |-> rec.count, unit |-> "emails"]

\* lines 142-170: the lines of one failure entry (i is 0-based, as in enumerate)
FailureEntry(i, rec) ==
    << [kind |-> "failure", n |-> i + 1, count_str |-> count_str(rec),
        source_ip |-> rec.source_ip],
       [kind |-> "disposition", text |-> Upper(rec.disposition)],
       [kind |-> "policy_results", spf |-> Upper(rec.spf), dkim |-> Upper(rec.dkim)],
       [kind |-> "action"] >>

\* lines 179-186: the lines of one warning entry
WarningEntry(i, rec) ==
    << [kind |-> "warning", n |-> i + 1, count_str |-> count_str(rec),
        source_ip |-> rec.source_ip],
       [kind |-> "policy_results", spf |-> Upper(rec.spf), dkim |-> Upper(rec.dkim)] >>

RECURSIVE FailureEntries(_)
FailureEntries(recs) ==
    IF recs = <<>> THEN <<>>
    ELSE FailureEntries(SubSeq(recs, 1, Len(recs) - 1))
         \o FailureEntry(Len(recs) - 1, recs[Len(recs)])

RECURSIVE WarningEntries(_)
WarningEntries(recs) ==
    IF recs = <<>> THEN <<>>
    ELSE WarningEntries(SubSeq(recs, 1, Len(recs) - 1))
         \o WarningEntry(Len(recs) - 1, recs[Len(recs)])

\* lines 138-172
FailureSection(failed_records) ==
    IF failed_records # <<>>
    THEN << [kind |-> "failures_banner"], [kind |-> "rule"] >>
         \o FailureEntries(failed_records) \o << [kind |-> "blank"] >>
    ELSE <<>>

\* lines 175-198
WarningSection(warning_records) ==
    IF warning_records # <<>>
    THEN << [kind |-> "warnings_banner"], [kind |-> "rule"] >>
         \o WarningEntries(warning_records) \o << [kind |-> "blank"] >>
    ELSE <<>>

\* a mutant of summary_parts: a bucket is named when it holds a record
summary_parts_by_records(failed_records, warning_records, failed_count, warning_count, success_count) ==
    (IF failed_records # <<>> THEN << [label |-> "FAILED", n |-> failed_count] >> ELSE <<>>)
    \o (IF warning_records # <<>>
        THEN << [label |-> "WARNINGS", n |-> warning_count] >> ELSE <<>>)
    \o (IF success_count > 0 THEN << [label |-> "SUCCESS", n |-> success_count] >> ELSE <<>>)

\* lines 204-210
summary_parts(failed_records, warning_records, failed_count, warning_count, success_count) ==
    (IF failed_count > 0 THEN << [label |-> "FAILED", n |-> failed_count] >> ELSE <<>>)
    \o (IF warning_count > 0
        THEN << [label |-> "WARNINGS", n |-> warning_count] >> ELSE <<>>)
    \o (IF success_count > 0 THEN << [label |-> "SUCCESS", n |-> success_count] >> ELSE <<>>)

NoLocals ==
    [records |-> <<>>, total_messages |-> 0, success_count |-> 0,
     warning_records |-> <<>>, failed_records |-> <<>>,
     failed_count |-> 0, warning_count |-> 0]

NoValue == [view |-> "none", lines |-> <<>>]

\* lines 216-220: the value parse_dmarc_xml returns
Returned(domain, org_name, locals, output_lines) ==
    IF locals.failed_records # <<>> \/ locals.warning_records # <<>>
    THEN [view |-> "digest", lines |-> output_lines]
    ELSE [view |-> "allclear",
          lines |-> << [kind |-> "allclear", domain |-> domain,
                        org_name |-> org_name, total |-> locals.total_messages] >>]

\* lines 36-220.  The result is the outcome of the call ("return" with its
\* value, or "raise" with the exception) and the locals at that point.
parse_dmarc_xml(content) ==
    IF ~content.wellformed
    THEN \* line 37: ET.fromstring raises ParseError
         [outcome |-> "raise", exc |-> "ParseError", value |-> NoValue,
          locals |-> NoLocals]
    ELSE
    LET org_name == findtext(content.org_name, "")
        domain == findtext(content.domain, "")
        records == BuildRecords(content.records)
    IN  IF \E k \in 1..Len(records) : ~IntParses(records[k].count)
        THEN \* line 107: int() raises ValueError
             [outcome |-> "raise", exc |-> "ValueError", value |-> NoValue,
              locals |-> [NoLocals EXCEPT !.records = records]]
        ELSE
        LET total_messages == SumCounts(records)
            loop == ClassifyLoop(records)
            failed_count == SumCounts(loop.failed_records)
            warning_count == SumCounts(loop.warning_records)
            locals == [records |-> records,
                       total_messages |-> total_messages,
                       success_count |-> loop.success_count,
                       warning_records |-> loop.warning_records,
                       failed_records |-> loop.failed_records,
                       failed_count |-> failed_count,
                       warning_count |-> warning_count]
            output_lines ==
                << [kind |-> "header", domain |-> domain, org_name |-> org_name],
                   [kind |-> "policy"],
                   [kind |-> "blank"] >>
                \o FailureSection(loop.failed_records)
                \o WarningSection(loop.warning_records)
                \o << [kind |-> "summary",
                       parts |-> summary_parts(loop.failed_records,
                                               loop.warning_records, failed_count,
                                               warning_count, loop.success_count),
                       total |-> total_messages] >>
        IN  [outcome |-> "return", exc |-> "none",
             value |-> Returned(domain, org_name, locals, output_lines),
             locals |-> locals]

---------------------------------------------------------------------------
(* Inputs of parse_dmarc_xml *)

Seqs(S, n) == UNION {[1..m -> S] : m \in 0..n}

Opt(S) == {<<>>} \cup {<<s>> : s \in S}

CountTexts == Seqs(CountChars, MaxCountLen)

\* every shape of one <record>: absent and empty fields, other spellings
WideRecordElems ==
    [source_ip : {<<"192.0.2.1">>},
     count : Opt(CountTexts),
     disposition : Opt({"none", "pass", "quarantine", "reject", ""}),
     dkim : Opt({"pass", "fail", "PASS"}),
     spf : Opt({"pass", "fail", "PASS"})]

\* the records of the documents with several records
NarrowRecordElems ==
    [source_ip : {<<"192.0.2.1">>},
     count : {<<>>, << <<"0">> >>, << <<"2">> >>},
     disposition : {<<"none">>, <<"quarantine">>, <<"reject">>},
     dkim : {<<"pass">>, <<"fail">>},
     spf : {<<"pass">>, <<"fail">>}]

Malformed == [wellformed |-> FALSE, org_name |-> <<>>, domain |-> <<>>, records |-> <<>>]

Document(domain, elems) ==
    [wellformed |-> TRUE, org_name |-> <<"google.com">>, domain |-> domain,
     records |-> elems]

Payloads ==
    {Malformed}
    \cup {Document(<<"example.com">>, <<e>>) : e \in WideRecordElems}
    \cup {Document(<<>>, es) : es \in Seqs(NarrowRecordElems, 1)}
    \cup {Document(<<"example.com">>, es) : es \in Seqs(NarrowRecordElems, MaxRecords)}

NoFrame == [outcome |-> "none", exc |-> "none", value |-> NoValue, locals |-> NoLocals]

---------------------------------------------------------------------------
(* The parse harness: a payload is chosen, then parse_dmarc_xml runs on it *)

MainIdle ==
    /\ reports = <<>> /\ idx = 0 /\ xmls = <<>> /\ j = 0
    /\ stdout = <<>> /\ exc = "none" /\ log = <<>>

Init ==
    /\ xml_content = Malformed
    /\ frame = NoFrame
    /\ ppc = "input"
    /\ pc = "idle"
    /\ MainIdle

ChoosePayload ==
    /\ ppc = "input"
    /\ xml_content' \in Payloads
    /\ ppc' = "call"
    /\ UNCHANGED <<frame, mainVars>>

CallParse ==
    /\ ppc = "call"
    /\ frame' = parse_dmarc_xml(xml_content)
    /\ ppc' = "returned"
    /\ UNCHANGED <<xml_content, mainVars>>

Next == ChoosePayload \/ CallParse

Spec == Init /\ [][Next]_vars

---------------------------------------------------------------------------
(* The archive extractors and the batch driver, main *)

\* names os.listdir may return, and names of the entries of a zip archive
FileNames == {"r.zip", "r.xml.gz", "r.xml", "R.XML", "notes.txt"}
EntryNames == {"report.xml", "REPORT.XML", "readme.txt"}

\* str.lower() on the names and extensions of the model
lower(s) ==
    CASE s = "REPORT.XML" -> "report.xml"
      [] s = ".XML" -> ".xml"
      [] OTHER -> s

\* str.endswith(".xml") on the entry names of the model
endswith_xml(s) == s \in {"report.xml"}

\* os.path.splitext(path)[1] on the file names of the model
splitext(path) ==
    CASE path = "r.zip" -> ".zip"
      [] path = "r.xml.gz" -> ".gz"
      [] path = "r.xml" -> ".xml"
      [] path = "R.XML" -> ".XML"
      [] path = "notes.txt" -> ".txt"

\* the payloads the files of the batch hold
DocFailure ==
    Document(<<"example.com">>,
             << [source_ip |-> <<"192.0.2.1">>, count |-> << <<"2">> >>,
                 disposition |-> <<"reject">>, dkim |-> <<"fail">>, spf |-> <<"fail">>] >>)

DocNoCount ==
    Document(<<"example.com">>,
             << [source_ip |-> <<"192.0.2.1">>, count |-> <<>>,
                 disposition |-> <<"none">>, dkim |-> <<"pass">>, spf |-> <<"pass">>] >>)

BatchPayloads == {Malformed, DocFailure, DocNoCount}

ZipEntries == [name : EntryNames, data : BatchPayloads]
ZipArchives == Seqs(ZipEntries, MaxEntries)

Notice ==
    [view |-> "notice",
     lines |-> << [kind |-> "text", text |-> "No XML files found in the zip archive."] >>]

\* line 11: the entries whose lower-cased name ends in ".xml"
xml_files(namelist) ==
    SelectSeq(namelist, LAMBDA e : endswith_xml(lower(e.name)))

RECURSIVE ReadAll(_)
ReadAll(entries) ==
    IF entries = <<>> THEN <<>>
    ELSE Append(ReadAll(SubSeq(entries, 1, Len(entries) - 1)), entries[Len(entries)].data)

\* lines 9-19: the payloads returned and what is printed
extract_xml_from_zip(z) ==
    IF xml_files(z) = <<>>
    THEN [xmls |-> <<>>, printed |-> <<Notice>>]
    ELSE [xmls |-> ReadAll(xml_files(z)), printed |-> <<>>]

\* lines 22-24
extract_xml_from_gz(data) == <<data>>

\* lines 233-244 without the lower()
DispatchNoLower(path) ==
    LET ext == splitext(path)
    IN  IF ext = ".zip" THEN "zip"
        ELSE IF ext = ".gz" THEN "gz"
        ELSE IF ext = ".xml" THEN "xml"
        ELSE "raise"

\* lines 233-244: the branch of the extension dispatch
Dispatch(path) ==
    LET ext == lower(splitext(path))
    IN  IF ext = ".zip" THEN "zip"
        ELSE IF ext = ".gz" THEN "gz"
        ELSE IF ext = ".xml" THEN "xml"
        ELSE "raise"

\* listings hold each name once
Listings == {l \in Seqs(FileNames, MaxFiles) : \A a, b \in 1..Len(l) : l[a] = l[b] => a = b}

InitBatch ==
    /\ xml_content = Malformed
    /\ frame = NoFrame
    /\ ppc = "idle"
    /\ pc = "start"
    /\ MainIdle

\* line 230
ListDir ==
    /\ pc = "start"
    /\ reports' \in Listings
    /\ idx' = 1
    /\ pc' = "for_report"
    /\ UNCHANGED <<parseVars, xmls, j, stdout, exc, log>>

\* the history entry of a file whose payloads were extracted
Visited(name, xml_entries, extracted, notice) ==
    [name |-> name, xml_entries |-> xml_entries, extracted |-> extracted,
     notice |-> notice, printed |-> 0]

\* the number of entries of z whose name is ".xml" in any case (for the history)
XmlEntryCount(z) == Cardinality({k \in 1..Len(z) : z[k].name \in {"report.xml", "REPORT.XML"}})

\* lines 231-244: the next file of the listing is dispatched on its extension
NextReport ==
    /\ pc = "for_report"
    /\ idx <= Len(reports)
    /\ \/ /\ Dispatch(reports[idx]) = "zip"
          /\ \E z \in ZipArchives :
                LET extracted == extract_xml_from_zip(z)
                IN  /\ xmls' = extracted.xmls
                    /\ stdout' = stdout \o extracted.printed
                    /\ log' = Append(log, Visited(reports[idx], XmlEntryCount(z),
                                                  Len(extracted.xmls),
                                                  extracted.printed # <<>>))
          /\ j' = 1 /\ pc' = "for_xml" /\ UNCHANGED exc
       \/ /\ Dispatch(reports[idx]) = "gz"
          /\ \E data \in BatchPayloads :
                /\ xmls' = extract_xml_from_gz(data)
                /\ log' = Append(log, Visited(reports[idx], 0, 1, FALSE))
          /\ j' = 1 /\ pc' = "for_xml" /\ UNCHANGED <<stdout, exc>>
       \/ /\ Dispatch(reports[idx]) = "xml"
          /\ \E data \in BatchPayloads :
                /\ xmls' = <<data>>
                /\ log' = Append(log, Visited(reports[idx], 0, 1, FALSE))
          /\ j' = 1 /\ pc' = "for_xml" /\ UNCHANGED <<stdout, exc>>
       \/ /\ Dispatch(reports[idx]) = "raise"
          /\ pc' = "raised"
          /\ exc' = "UnsupportedFileType"
          /\ UNCHANGED <<xmls, j, stdout, log>>
    /\ UNCHANGED <<parseVars, reports, idx>>

\* lines 245-247: one payload is parsed and its summary printed
ParseAndPrint ==
    /\ pc = "for_xml"
    /\ j <= Len(xmls)
    /\ \/ /\ parse_dmarc_xml(xmls[j]).outcome = "return"
          /\ stdout' = Append(stdout, parse_dmarc_xml(xmls[j]).value)
          /\ log' = [log EXCEPT ![Len(log)].printed = @ + 1]
          /\ j' = j + 1
          /\ UNCHANGED <<pc, exc>>
       \/ /\ parse_dmarc_xml(xmls[j]).outcome = "raise"
          /\ pc' = "raised"
          /\ exc' = parse_dmarc_xml(xmls[j]).exc
          /\ UNCHANGED <<stdout, log, j>>
    /\ UNCHANGED <<parseVars, reports, idx, xmls>>

\* line 245: the inner loop is over, the outer loop goes on
EndOfXmls ==
    /\ pc = "for_xml"
    /\ j > Len(xmls)
    /\ idx' = idx + 1
    /\ pc' = "for_report"
    /\ UNCHANGED <<parseVars, reports, xmls, j, stdout, exc, log>>

\* line 231: the listing is exhausted, main returns
EndOfReports ==
    /\ pc = "for_report"
    /\ idx > Len(reports)
    /\ pc' = "done"
    /\ UNCHANGED <<parseVars, reports, idx, xmls, j, stdout, exc, log>>

NextBatch == ListDir \/ NextReport \/ ParseAndPrint \/ EndOfXmls \/ EndOfReports

SpecBatch == InitBatch /\ [][NextBatch]_vars

---------------------------------------------------------------------------
(* Reference definitions, written from the statements of the claims, over  *)
(* the elements of the input document                                      *)

Text(elem) == IF Len(elem) = 0 THEN "" ELSE elem[1]
CountText(elem) == IF Len(elem) = 0 THEN <<>> ELSE elem[1]

RefSuccess(e) ==
    /\ Text(e.spf) = "pass"
    /\ Text(e.dkim) = "pass"
    /\ Text(e.disposition) \in {"none", "pass"}

RefWarning(e) ==
    /\ ~RefSuccess(e)
    /\ Text(e.spf) = "pass" \/ Text(e.dkim) = "pass"
    /\ Text(e.disposition) \in {"none", "pass", "quarantine"}

RefClass(e) ==
    IF RefSuccess(e) THEN "Success" ELSE IF RefWarning(e) THEN "Warning" ELSE "Failure"

Elems == xml_content.records

OfClass(c) == {k \in 1..Len(Elems) : RefClass(Elems[k]) = c}

\* the count of a record as a number, an unparsable count being 0
CountOrZero(e) == IF IntParses(CountText(e.count)) THEN IntValue(CountText(e.count)) ELSE 0

RECURSIVE RefSum(_)
RefSum(K) ==
    IF K = {} THEN 0
    ELSE LET k == CHOOSE x \in K : TRUE IN CountOrZero(Elems[k]) + RefSum(K \ {k})

\* the elements of class c, in document order, with the texts an entry shows
RefEntries(c) ==
    LET shown(e) == [count |-> CountText(e.count), source_ip |-> Text(e.source_ip),
                     disposition |-> Text(e.disposition),
                     spf |-> Text(e.spf), dkim |-> Text(e.dkim)]
    IN  SelectSeq([k \in 1..Len(Elems) |-> shown(Elems[k])],
                  LAMBDA r : \E k \in OfClass(c) : shown(Elems[k]) = r)

Called == ppc = "returned"
ReturnedValue == Called /\ frame.outcome = "return"
Digest == ReturnedValue /\ frame.value.view = "digest"
Lines == frame.value.lines

\* the positions of the lines of one kind, in the order of the output
PositionsOf(kind) ==
    SelectSeq([k \in 1..Len(Lines) |-> k], LAMBDA k : Lines[k].kind = kind)

SummaryLabels ==
    {Lines[Len(Lines)].parts[k].label : k \in 1..Len(Lines[Len(Lines)].parts)}

---------------------------------------------------------------------------
(* Claims about parse_dmarc_xml, checked under Spec *)

\* C1: for every report whose counts int() accepts, each record is in exactly
\* one of Success, Warning, Failure (the failure list holds exactly the
\* Failure records, the warning list exactly the Warning records, the
\* success count exactly the Success records' messages), and the three
\* message counts add up to the total message count.
C1_ClassifierTotals ==
    ReturnedValue =>
        /\ Len(frame.locals.failed_records) = Cardinality(OfClass("Failure"))
        /\ Len(frame.locals.warning_records) = Cardinality(OfClass("Warning"))
        /\ Len(frame.locals.failed_records) + Len(frame.locals.warning_records)
              + Cardinality(OfClass("Success")) = Len(Elems)
        /\ frame.locals.success_count = RefSum(OfClass("Success"))
        /\ frame.locals.warning_count = RefSum(OfClass("Warning"))
        /\ frame.locals.failed_count = RefSum(OfClass("Failure"))
        /\ frame.locals.success_count + frame.locals.warning_count
              + frame.locals.failed_count = frame.locals.total_messages

C1_Witness ==
    /\ ReturnedValue
    /\ Len(Elems) = 2
    /\ frame.locals.success_count > 0
    /\ frame.locals.failed_count > 0
    /\ frame.locals.total_messages = frame.locals.success_count + frame.locals.failed_count

\* the bucket a single record was put into, as the locals show it
ObservedClass ==
    IF frame.locals.failed_records # <<>> THEN "Failure"
    ELSE IF frame.locals.warning_records # <<>> THEN "Warning"
    ELSE "Success"

\* C2: the class of a record is the one of the decision table taken in
\* precedence order (Success, then Warning, else Failure); pass/pass/none is
\* Success, fail/pass/quarantine is Warning, fail/fail/reject is Failure, and a
\* disposition of "reject" or "" is always Failure.
C2_DecisionTable ==
    (ReturnedValue /\ Len(Elems) = 1) =>
        LET e == Elems[1]
            spf == Text(e.spf)
            dkim == Text(e.dkim)
            disposition == Text(e.disposition)
        IN  /\ ObservedClass = RefClass(e)
            /\ Len(frame.locals.failed_records) + Len(frame.locals.warning_records) <= 1
            /\ (spf = "pass" /\ dkim = "pass" /\ disposition = "none")
                  => ObservedClass = "Success"
            /\ (spf = "fail" /\ dkim = "pass" /\ disposition = "quarantine")
                  => ObservedClass = "Warning"
            /\ (spf = "fail" /\ dkim = "fail" /\ disposition = "reject")
                  => ObservedClass = "Failure"
            /\ disposition \in {"reject", ""} => ObservedClass = "Failure"

C2_Witness ==
    /\ ReturnedValue
    /\ Len(Elems) = 1
    /\ Text(Elems[1].spf) = "fail"
    /\ Text(Elems[1].dkim) = "pass"
    /\ Text(Elems[1].disposition) = "quarantine"
    /\ ObservedClass = "Warning"

\* C3: a payload that is not well-formed XML makes parse_dmarc_xml return a
\* string describing the error; no exception reaches the caller.
C3_MalformedYieldsErrorString ==
    (Called /\ ~xml_content.wellformed) =>
        /\ frame.outcome = "return"
        /\ frame.value.view = "error"

\* C4: a record whose count is missing or not numeric does not make the
\* parse fail: a summary is returned, and the record adds 0 to the totals.
C4_UnparsableCountIsZero ==
    (Called /\ xml_content.wellformed
        /\ \E k \in 1..Len(Elems) : ~IntParses(CountText(Elems[k].count))) =>
        /\ frame.outcome = "return"
        /\ frame.locals.total_messages = RefSum(1..Len(Elems))
        /\ frame.locals.success_count = RefSum(OfClass("Success"))
        /\ frame.locals.warning_count = RefSum(OfClass("Warning"))
        /\ frame.locals.failed_count = RefSum(OfClass("Failure"))

\* C8: a report with no Failure and no Warning record renders as the single
\* all-clear line with the domain, the organization name and the total message
\* count; a report with a Failure or a Warning record never renders it.
C8_AllClearLine ==
    (Called /\ xml_content.wellformed) =>
        /\ (OfClass("Failure") \cup OfClass("Warning") = {}) =>
              /\ frame.outcome = "return"
              /\ frame.value =
                    [view |-> "allclear",
                     lines |-> << [kind |-> "allclear",
                                   domain |-> Text(xml_content.domain),
                                   org_name |-> Text(xml_content.org_name),
                                   total |-> RefSum(1..Len(Elems))] >>]
        /\ (OfClass("Failure") \cup OfClass("Warning") # {}) =>
              frame.value.view # "allclear"

\* C9: the parser's record list has one entry per record element, in document
\* order; in the digest the Failure entries and the Warning entries are
\* numbered 1, 2, ... in document order, and no Success record is an entry.
C9_DocumentOrder ==
    (Called /\ xml_content.wellformed) =>
        /\ Len(frame.locals.records) = Len(Elems)
        /\ \A k \in 1..Len(Elems) :
              /\ frame.locals.records[k].count = CountText(Elems[k].count)
              /\ frame.locals.records[k].spf = Text(Elems[k].spf)
              /\ frame.locals.records[k].dkim = Text(Elems[k].dkim)
              /\ frame.locals.records[k].disposition = Text(Elems[k].disposition)
              /\ frame.locals.records[k].source_ip = Text(Elems[k].source_ip)
        /\ Digest =>
              /\ Len(PositionsOf("failure")) = Len(RefEntries("Failure"))
              /\ Len(PositionsOf("warning")) = Len(RefEntries("Warning"))
              /\ \A n \in 1..Len(PositionsOf("failure")) :
                    LET p == PositionsOf("failure")[n]
                        r == RefEntries("Failure")[n]
                    IN  /\ Lines[p].n = n
                        /\ Lines[p].count_str.count = r.count
                        /\ Lines[p].source_ip = r.source_ip
                        /\ Lines[p + 1] = [kind |-> "disposition",
                                           text |-> Upper(r.disposition)]
                        /\ Lines[p + 2] = [kind |-> "policy_results",
                                           spf |-> Upper(r.spf), dkim |-> Upper(r.dkim)]
              /\ \A n \in 1..Len(PositionsOf("warning")) :
                    LET p == PositionsOf("warning")[n]
                        r == RefEntries("Warning")[n]
                    IN  /\ Lines[p].n = n
                        /\ Lines[p].count_str.count = r.count
                        /\ Lines[p].source_ip = r.source_ip
                        /\ Lines[p + 1] = [kind |-> "policy_results",
                                           spf |-> Upper(r.spf), dkim |-> Upper(r.dkim)]

C9_Witness ==
    /\ Digest
    /\ Len(Elems) = 2
    /\ OfClass("Failure") = {1, 2}
    /\ Elems[1] # Elems[2]
    /\ Len(PositionsOf("failure")) = 2

\* C10: in the digest the summary line names FAILED, WARNINGS, SUCCESS exactly
\* when that bucket's message count is positive, and the Failure and Warning
\* sections are shown exactly when the bucket holds a record.
C10_SummaryParts ==
    Digest =>
        /\ Lines[Len(Lines)].kind = "summary"
        /\ "FAILED" \in SummaryLabels <=> RefSum(OfClass("Failure")) > 0
        /\ "WARNINGS" \in SummaryLabels <=> RefSum(OfClass("Warning")) > 0
        /\ "SUCCESS" \in SummaryLabels <=> RefSum(OfClass("Success")) > 0
        /\ PositionsOf("failures_banner") # <<>> <=> OfClass("Failure") # {}
        /\ PositionsOf("warnings_banner") # <<>> <=> OfClass("Warning") # {}

C10_Witness ==
    /\ Digest
    /\ OfClass("Failure") # {}
    /\ PositionsOf("failures_banner") # <<>>
    /\ "FAILED" \notin SummaryLabels

---------------------------------------------------------------------------
(* Claims about the batch driver, checked under SpecBatch *)

SupportedNames == {"r.zip", "r.xml.gz", "r.xml", "R.XML"}

Ended == pc \in {"done", "raised"}

\* the driver has left file k behind: it moved on, or the run is over
Finished(k) == k <= Len(log) /\ (k < idx \/ Ended)

\* the files listed before the first file with an unsupported extension
BeforeUnsupported ==
    {k \in 1..Len(reports) : \A m \in 1..k : reports[m] \in SupportedNames}

Summaries == SelectSeq(stdout, LAMBDA out : out.view # "notice")

RECURSIVE PrintedUpTo(_)
PrintedUpTo(k) == IF k = 0 THEN 0 ELSE PrintedUpTo(k - 1) + log[k].printed

\* a file whose processing failed: fewer summaries than payloads
Failed(m) == m <= Len(log) /\ log[m].printed < log[m].extracted

\* C5: a failure while one file is processed ends that file only: when the
\* run is over, every file listed after a failed file (and before the first
\* file with an unsupported extension) has been extracted and has its
\* summaries printed.
C5_FailureIsLocal ==
    Ended =>
        \A m, k \in BeforeUnsupported :
            (Failed(m) /\ m < k) =>
                /\ k <= Len(log)
                /\ log[k].extracted > 0 => log[k].printed > 0

\* C6: a file with an unsupported extension is never extracted; when the
\* driver reaches it the run ends with the unsupported-file-type error, the
\* summaries of all files before it are printed, and nothing runs after it.
C6_UnsupportedAborts ==
    /\ \A k \in 1..Len(log) : log[k].name = reports[k] /\ reports[k] \in SupportedNames
    /\ \A k \in 1..Len(reports) :
          reports[k] \notin SupportedNames =>
              /\ idx <= k
              /\ pc # "done"
              /\ (idx = k /\ pc # "for_report") => (pc = "raised" /\ Len(log) = k - 1)
    /\ (pc = "raised" /\ exc = "UnsupportedFileType") =>
          /\ idx \in 1..Len(reports)
          /\ reports[idx] \notin SupportedNames
          /\ Len(log) = idx - 1
          /\ \A k \in 1..Len(log) : log[k].printed = log[k].extracted
          /\ Len(Summaries) = PrintedUpTo(Len(log))
          /\ ~ENABLED NextBatch

C6_Witness ==
    /\ pc = "raised"
    /\ exc = "UnsupportedFileType"
    /\ idx = 2
    /\ Len(reports) = 3
    /\ reports[3] \in SupportedNames
    /\ Len(Summaries) = 2

\* C7: a .gz or .xml file yields one payload, a .zip file one payload per
\* entry named *.xml in any case; a .zip without such an entry yields none,
\* prints the notice and no summary, and the run goes on; so every file
\* the driver has left behind has as many summaries as payloads.
C7_PayloadsAndSummaries ==
    /\ \A k \in 1..Len(log) :
          /\ log[k].name \in {"r.xml.gz", "r.xml", "R.XML"} => log[k].extracted = 1
          /\ log[k].name = "r.zip" =>
                /\ log[k].extracted = log[k].xml_entries
                /\ log[k].notice <=> log[k].xml_entries = 0
          /\ Finished(k) => log[k].printed = log[k].extracted
    /\ (pc = "for_xml" /\ xmls = <<>>) => ENABLED EndOfXmls

===========================================================================
